---- MODULE Spec2Model ----
(***************************************************************************)
(* A model of GraderClient (src/graderclient/__init__.py): the validators, *)
(* the endpoint join and the five request operations, together with the    *)
(* local filesystem they read and write and the HTTP transport they call.  *)
(*                                                                         *)
(* Python values are records [t, s]: t is the type tag ("none", "int",     *)
(* "str", "path", "bytes", "bool", "nojson") and s the characters or bytes *)
(* of a str, PurePath or bytes value (a sequence of one-character strings  *)
(* or of byte tokens), <<>> for the other types.                           *)
(***************************************************************************)
EXTENDS Integers, Sequences, FiniteSets, TLC

VARIABLES
    client,   \* the GraderClient instance: its url, oauth, uri, download_directory, endpoints
    files,    \* the regular files of the local filesystem: path -> contents
    call,     \* the invocation whose outcome the caller is looking at (NoCall between calls)
    sent,     \* the HTTP requests handed to the transport by that invocation, in order
    held      \* the identifier the caller got from the upload_image it has just collected

vars == <<client, files, call, sent, held>>

----------------------------------------------------------------------------
(* Python values *)

None == [t |-> "none", s |-> <<>>]
NonStr == [t |-> "int", s |-> <<>>]
True == [t |-> "bool", s |-> <<>>]
NoJson == [t |-> "nojson", s |-> <<>>]
NotBytes == [t |-> "str", s |-> <<"<">>]

Str(s) == [t |-> "str", s |-> s]
PathObj(s) == [t |-> "path", s |-> s]
Bytes(b) == [t |-> "bytes", s |-> b]

IsStr(v) == v.t = "str"
IsPathLike(v) == v.t = "str" \/ v.t = "path"

Min(a, b) == IF a < b THEN a ELSE b

\* s[a:b] of Python, 0 <= a <= b
Slice(s, a, b) == SubSeq(s, a + 1, Min(b, Len(s)))

\* s.rfind(c) + 1 of Python: the 1-based position of the last c in s, 0 when there is none
RFind(s, c) ==
    LET hits == {i \in 1..Len(s) : s[i] = c}
    IN  IF hits = {} THEN 0 ELSE CHOOSE i \in hits : \A j \in hits : j <= i

RECURSIVE RStrip(_, _)
RStrip(s, c) ==
    IF s # <<>> /\ s[Len(s)] = c THEN RStrip(SubSeq(s, 1, Len(s) - 1), c) ELSE s

\* os.path.splitext(p)[1]: from the last dot of the last component, leading dots skipped
splitext_ext(p) ==
    LET sepIndex == RFind(p, "/")
        dotIndex == RFind(p, ".")
    IN  IF dotIndex > sepIndex /\ \E k \in (sepIndex + 1)..(dotIndex - 1) : p[k] # "."
        THEN SubSeq(p, dotIndex, Len(p))
        ELSE <<>>

\* os.path.dirname(p)
dirname(p) ==
    LET i == RFind(p, "/")
        head == SubSeq(p, 1, i)
    IN  IF head # <<>> /\ \E k \in 1..Len(head) : head[k] # "/"
        THEN RStrip(head, "/")
        ELSE head

\* os.path.join(a, b) for two str operands
join(a, b) ==
    IF b # <<>> /\ b[1] = "/" THEN b
    ELSE IF a = <<>> \/ a[Len(a)] = "/" THEN a \o b
    ELSE a \o <<"/">> \o b

----------------------------------------------------------------------------
(* The local filesystem *)

\* the directories that exist; "." is the current directory
Dirs == { <<"d">>, <<".">>, <<"/">> }

\* os.path.exists(p)
exists(p) == p # <<>> /\ (p \in Dirs \/ p \in DOMAIN files)

----------------------------------------------------------------------------
(* Words *)

http == <<"h","t","t","p",":","/","/">>
https == <<"h","t","t","p","s",":","/","/">>
jpg == <<"j","p","g">>
jpeg == <<"j","p","e","g">>
png == <<"p","n","g">>
tif == <<"t","i","f">>
tiff == <<"t","i","f","f">>
json == <<"j","s","o","n">>
ImageExtensions == {jpg, jpeg, png, tif, tiff}

----------------------------------------------------------------------------
(* Validators: the result is "True" or the class of the exception raised *)

\* a validate_url that looks at the scheme name only, not at the '://' after it
validate_url_scheme_only(url) ==
    IF url = None THEN "ValueError"
    ELSE IF ~IsStr(url) THEN "TypeError"
    ELSE IF Slice(url.s, 0, 4) = SubSeq(http, 1, 4) THEN "True"
    ELSE "ValueError"

validate_url(url) ==
    IF url = None THEN "ValueError"
    ELSE IF ~IsStr(url) THEN "TypeError"
    ELSE IF Slice(url.s, 0, 7) = http \/ Slice(url.s, 0, 8) = https THEN "True"
    ELSE "ValueError"

\* a validate_oauth that rejects None only
validate_oauth_none_only(oauth) ==
    IF oauth = None THEN "ValueError"
    ELSE "True"

validate_oauth(oauth) ==
    IF oauth = None THEN "ValueError"
    ELSE IF ~IsStr(oauth) THEN "TypeError"
    ELSE "True"

\* a validate_image_path that accepts any file that exists
validate_image_path_any_ext(path) ==
    IF ~IsPathLike(path) THEN "TypeError"
    ELSE IF ~exists(path.s) THEN "FileNotFoundError"
    ELSE "True"

validate_image_path(path) ==
    IF ~IsPathLike(path) THEN "TypeError"
    ELSE LET ext == splitext_ext(path.s)
         IN  IF ~(Slice(ext, 1, Len(ext)) \in ImageExtensions) THEN "FileNotFoundError"
             ELSE IF ~exists(path.s) THEN "FileNotFoundError"
             ELSE "True"

\* a validate_uri that reports None as it reports any value that is not a str
validate_uri_none_type_error(uri) ==
    IF ~IsStr(uri) THEN "TypeError"
    ELSE "True"

validate_uri(uri) ==
    IF uri = None THEN "ValueError"
    ELSE IF ~IsStr(uri) THEN "TypeError"
    ELSE "True"

validate_path(path, extension) ==
    IF ~IsPathLike(path) THEN "TypeError"
    ELSE LET directory == dirname(path.s)
             ext0 == splitext_ext(path.s)
             ext == Slice(ext0, 1, Len(ext0))
         IN  IF ~exists(directory) THEN "FileNotFoundError"
             ELSE IF ext = <<>> \/ ~(ext = extension) THEN "ValueError"
             ELSE "True"

\* a join_endpoint that puts a '/' between its operands whatever the URL ends with
join_endpoint_always_slash(url, endpoint) ==
    IF IsStr(url)
    THEN IF ~IsStr(endpoint) THEN [raise |-> "TypeError", value |-> None]
         ELSE [raise |-> "", value |-> Str(url.s \o <<"/">> \o endpoint.s)]
    ELSE [raise |-> "TypeError", value |-> None]

\* the result is the joined str, or the class of the exception raised
join_endpoint(url, endpoint) ==
    IF IsStr(url)
    THEN IF ~IsStr(endpoint) THEN [raise |-> "TypeError", value |-> None]
         ELSE [raise |-> "", value |-> Str(join(url.s, endpoint.s))]
    ELSE [raise |-> "TypeError", value |-> None]

----------------------------------------------------------------------------
(* The HTTP transport: requests handed over, responses handed back *)

NoField == [t |-> "absent", s |-> <<>>]
NoFile == [name |-> "", data |-> <<>>]
NoResp == [status |-> 0, json |-> NoJson, content |-> NoField]

\* requests.post(url, data={'uri': uri}, files={'file': file}) or requests.put(...): no
\* headers= and no auth= argument is passed
Request(method, url, uri, file) ==
    [method |-> method, url |-> url, uri |-> uri, file |-> file, auth |-> NoField]

\* what an operation did: the exception it raised ("" when it returned), the pair it
\* returned, the requests it issued, and the files and the client it left behind
Raised(exc, requests) ==
    [exc |-> exc, resp |-> NoResp, derived |-> None, sent |-> requests, files |-> files,
     client |-> client]
Returned(resp, derived, requests, fs) ==
    [exc |-> "", resp |-> resp, derived |-> derived, sent |-> requests, files |-> fs,
     client |-> client]

\* a write that opens the file for appending
write_append(path, content) ==
    [p \in DOMAIN files \cup {path} |->
        IF p = path THEN (IF p \in DOMAIN files THEN files[p] ELSE <<>>) \o content
        ELSE files[p]]

\* open(path, 'wb'); f.write(content): the file is created or truncated, then written
write(path, content) ==
    [p \in DOMAIN files \cup {path} |-> IF p = path THEN content ELSE files[p]]

\* a result that hands back the client's own uri field on 200
uri_result_client_uri(r, requests) ==
    IF r.status = 200
    THEN IF r.json = NoJson THEN Raised("JSONDecodeError", requests)
         ELSE Returned(r, client.uri, requests, files)
    ELSE Returned(r, None, requests, files)

\* a result that also stores the returned identifier in the client's uri field
uri_result_stores_uri(r, requests) ==
    IF r.status = 200
    THEN IF r.json = NoJson THEN Raised("JSONDecodeError", requests)
         ELSE [Returned(r, r.json, requests, files)
                  EXCEPT !.client = [client EXCEPT !.uri = r.json]]
    ELSE Returned(r, None, requests, files)

\* a result that raises on every status but 200, as response.raise_for_status() would
uri_result_raise_for_status(r, requests) ==
    IF r.status = 200
    THEN IF r.json = NoJson THEN Raised("JSONDecodeError", requests)
         ELSE Returned(r, r.json, requests, files)
    ELSE Raised("HTTPError", requests)

\* if status_code == 200: return response, response.json()['uri']; else: return response, None
uri_result(r, requests) ==
    IF r.status = 200
    THEN IF r.json = NoJson THEN Raised("JSONDecodeError", requests)
         ELSE Returned(r, r.json, requests, files)
    ELSE Returned(r, None, requests, files)

----------------------------------------------------------------------------
(* The request operations; r is the response the transport gives to the request *)

\* an upload_image that always takes the URL from the client's field
upload_image_ignores_url_arg(path, url, oauth, r) ==
    LET v_path == validate_image_path(path)
        endpoint == client.endpoints["upload_image"]
        url1 == client.url
        oauth1 == IF oauth = None THEN client.oauth ELSE oauth
        v_url == validate_url(url1)
        v_oauth == validate_oauth(oauth1)
        joined == join_endpoint(url1, endpoint)
        request == Request("POST", joined.value, NoField,
                           [name |-> "aOriginal.jpg", data |-> files[path.s]])
    IN  IF v_path # "True" THEN Raised(v_path, <<>>)
        ELSE IF v_url # "True" THEN Raised(v_url, <<>>)
        ELSE IF v_oauth # "True" THEN Raised(v_oauth, <<>>)
        ELSE IF joined.raise # "" THEN Raised(joined.raise, <<>>)
        ELSE uri_result(r, <<request>>)

upload_image(path, url, oauth, r) ==
    LET v_path == validate_image_path(path)
        endpoint == client.endpoints["upload_image"]
        url1 == IF url = None THEN client.url ELSE url
        oauth1 == IF oauth = None THEN client.oauth ELSE oauth
        v_url == validate_url(url1)
        v_oauth == validate_oauth(oauth1)
        joined == join_endpoint(url1, endpoint)
        request == Request("POST", joined.value, NoField,
                           [name |-> "aOriginal.jpg", data |-> files[path.s]])
    IN  IF v_path # "True" THEN Raised(v_path, <<>>)
        ELSE IF v_url # "True" THEN Raised(v_url, <<>>)
        ELSE IF v_oauth # "True" THEN Raised(v_oauth, <<>>)
        ELSE IF joined.raise # "" THEN Raised(joined.raise, <<>>)
        ELSE uri_result(r, <<request>>)

\* a process_image that attaches the credential to its request
process_image_sends_token(uri, url, oauth, r) ==
    LET endpoint == client.endpoints["process_image"]
        url1 == IF url = None THEN client.url ELSE url
        oauth1 == IF oauth = None THEN client.oauth ELSE oauth
        uri1 == IF uri = None THEN client.uri ELSE uri
        v_url == validate_url(url1)
        v_oauth == validate_oauth(oauth1)
        v_uri == validate_uri(uri1)
        joined == join_endpoint(url1, endpoint)
        request == [Request("POST", joined.value, uri1, NoFile) EXCEPT !.auth = oauth1]
    IN  IF v_url # "True" THEN Raised(v_url, <<>>)
        ELSE IF v_oauth # "True" THEN Raised(v_oauth, <<>>)
        ELSE IF v_uri # "True" THEN Raised(v_uri, <<>>)
        ELSE IF joined.raise # "" THEN Raised(joined.raise, <<>>)
        ELSE uri_result(r, <<request>>)

\* a process_image whose uri falls back the wrong way round: the client's field wins
process_image_field_first(uri, url, oauth, r) ==
    LET endpoint == client.endpoints["process_image"]
        url1 == IF url = None THEN client.url ELSE url
        oauth1 == IF oauth = None THEN client.oauth ELSE oauth
        uri1 == IF client.uri = None THEN uri ELSE client.uri
        v_url == validate_url(url1)
        v_oauth == validate_oauth(oauth1)
        v_uri == validate_uri(uri1)
        joined == join_endpoint(url1, endpoint)
        request == Request("POST", joined.value, uri1, NoFile)
    IN  IF v_url # "True" THEN Raised(v_url, <<>>)
        ELSE IF v_oauth # "True" THEN Raised(v_oauth, <<>>)
        ELSE IF v_uri # "True" THEN Raised(v_uri, <<>>)
        ELSE IF joined.raise # "" THEN Raised(joined.raise, <<>>)
        ELSE uri_result(r, <<request>>)

process_image(uri, url, oauth, r) ==
    LET endpoint == client.endpoints["process_image"]
        url1 == IF url = None THEN client.url ELSE url
        oauth1 == IF oauth = None THEN client.oauth ELSE oauth
        uri1 == IF uri = None THEN client.uri ELSE uri
        v_url == validate_url(url1)
        v_oauth == validate_oauth(oauth1)
        v_uri == validate_uri(uri1)
        joined == join_endpoint(url1, endpoint)
        request == Request("POST", joined.value, uri1, NoFile)
    IN  IF v_url # "True" THEN Raised(v_url, <<>>)
        ELSE IF v_oauth # "True" THEN Raised(v_oauth, <<>>)
        ELSE IF v_uri # "True" THEN Raised(v_uri, <<>>)
        ELSE IF joined.raise # "" THEN Raised(joined.raise, <<>>)
        ELSE uri_result(r, <<request>>)

update_marked_answers(path, uri, url, oauth, r) ==
    LET endpoint == client.endpoints["update_marked_answers"]
        url1 == IF url = None THEN client.url ELSE url
        oauth1 == IF oauth = None THEN client.oauth ELSE oauth
        uri1 == IF uri = None THEN client.uri ELSE uri
        joined == join_endpoint(url1, endpoint)
        request == Request("PUT", joined.value, uri1,
                           [name |-> "updated_answers.json", data |-> files[path.s]])
    IN  IF joined.raise # "" THEN Raised(joined.raise, <<>>)
        ELSE IF ~IsPathLike(path) THEN Raised("TypeError", <<>>)
        ELSE IF path.s \notin DOMAIN files THEN Raised("FileNotFoundError", <<>>)
        ELSE uri_result(r, <<request>>)

\* a download tail that repeats the request once when the status is neither 200 nor 500
download_result_retry(r, path, requests) ==
    IF r.status = 200
    THEN IF r.content.t = "bytes"
         THEN Returned(r, path, requests, write(path.s, r.content.s))
         ELSE Raised("Warning", requests)
    ELSE IF r.status = 500 THEN Raised("FileNotFoundError", requests)
    ELSE Returned(r, None, requests \o requests, files)

\* a download tail that writes the body before it looks at the status code
download_result_write_first(r, path, requests) ==
    IF r.content.t = "bytes"
    THEN IF r.status = 200 THEN Returned(r, path, requests, write(path.s, r.content.s))
         ELSE IF r.status = 500
              THEN [Raised("FileNotFoundError", requests)
                       EXCEPT !.files = write(path.s, r.content.s)]
         ELSE Returned(r, None, requests, write(path.s, r.content.s))
    ELSE Raised("Warning", requests)

\* the tail of the two downloads, after the request has been answered
download_result(r, path, requests) ==
    IF r.status = 200
    THEN IF r.content.t = "bytes"
         THEN Returned(r, path, requests, write(path.s, r.content.s))
         ELSE Raised("Warning", requests)
    ELSE IF r.status = 500 THEN Raised("FileNotFoundError", requests)
    ELSE Returned(r, None, requests, files)

\* a download_marked_answers that validates the URL and the credential only after the
\* request has been answered
download_marked_answers_late_check(path, uri, url, oauth, r) ==
    LET endpoint == client.endpoints["download_marked_answers"]
        url1 == IF url = None THEN client.url ELSE url
        oauth1 == IF oauth = None THEN client.oauth ELSE oauth
        uri1 == IF uri = None THEN client.uri ELSE uri
        v_path == validate_path(path, json)
        v_uri == validate_uri(uri1)
        v_url == validate_url(url1)
        v_oauth == validate_oauth(oauth1)
        joined == join_endpoint(url1, endpoint)
        request == Request("POST", joined.value, uri1, NoFile)
    IN  IF v_path # "True" THEN Raised(v_path, <<>>)
        ELSE IF v_uri # "True" THEN Raised(v_uri, <<>>)
        ELSE IF joined.raise # "" THEN Raised(joined.raise, <<>>)
        ELSE IF v_url # "True" THEN Raised(v_url, <<request>>)
        ELSE IF v_oauth # "True" THEN Raised(v_oauth, <<request>>)
        ELSE download_result(r, path, <<request>>)

download_marked_answers(path, uri, url, oauth, r) ==
    LET endpoint == client.endpoints["download_marked_answers"]
        url1 == IF url = None THEN client.url ELSE url
        oauth1 == IF oauth = None THEN client.oauth ELSE oauth
        uri1 == IF uri = None THEN client.uri ELSE uri
        v_path == validate_path(path, json)
        v_uri == validate_uri(uri1)
        v_url == validate_url(url1)
        v_oauth == validate_oauth(oauth1)
        joined == join_endpoint(url1, endpoint)
        request == Request("POST", joined.value, uri1, NoFile)
    IN  IF v_path # "True" THEN Raised(v_path, <<>>)
        ELSE IF v_uri # "True" THEN Raised(v_uri, <<>>)
        ELSE IF v_url # "True" THEN Raised(v_url, <<>>)
        ELSE IF v_oauth # "True" THEN Raised(v_oauth, <<>>)
        ELSE IF joined.raise # "" THEN Raised(joined.raise, <<>>)
        ELSE download_result(r, path, <<request>>)

download_confirmation_image(path, uri, url, oauth, r) ==
    LET endpoint == client.endpoints["download_confirmation_image"]
        url1 == IF url = None THEN client.url ELSE url
        oauth1 == IF oauth = None THEN client.oauth ELSE oauth
        uri1 == IF uri = None THEN client.uri ELSE uri
        v_path == validate_path(path, jpg)
        v_uri == validate_uri(uri1)
        v_oauth == validate_oauth(oauth1)
        v_url == validate_url(url1)
        joined == join_endpoint(url1, endpoint)
        request == Request("POST", joined.value, uri1, NoFile)
    IN  IF v_path # "True" THEN Raised(v_path, <<>>)
        ELSE IF v_uri # "True" THEN Raised(v_uri, <<>>)
        ELSE IF v_oauth # "True" THEN Raised(v_oauth, <<>>)
        ELSE IF v_url # "True" THEN Raised(v_url, <<>>)
        ELSE IF joined.raise # "" THEN Raised(joined.raise, <<>>)
        ELSE download_result(r, path, <<request>>)

----------------------------------------------------------------------------
(* Bounds and the inputs drawn from them *)

\* the longest response body, in bytes
MaxBodyLen == 2

\* the bodies the transport answers with: the first n bytes ff 00 ff 00 ..., n <= MaxBodyLen
Body(n) == [i \in 1..n |-> IF i % 2 = 1 THEN "ff" ELSE "00"]
Bodies == {Body(n) : n \in 0..MaxBodyLen}

host == <<"h">>
ftp == <<"f","t","p",":","/","/">>

\* explicit arguments of the operations (None: the argument is left out)
UrlArgs == {None, Str(http \o host), Str(ftp \o host), NonStr}
OauthArgs == {None, Str(<<"t">>), Str(<<>>)}
UriArgs == {None, Str(<<"a">>), Str(<<>>)}

\* values assigned to the client's fields after construction
UrlFields == {Str(https \o <<"g">>), None}
OauthFields == {Str(<<"s">>), NonStr}
UriFields == {None, Str(<<"b">>)}

\* identifiers the server issues
ServerUris == {Str(<<"a">>), Str(<<"c">>)}

\* d/i.jpg, d/i.txt exist; d/n.png does not
UploadPaths ==
    { Str(<<"d","/","i",".">> \o jpg), Str(<<"d","/","i",".","t","x","t">>),
      Str(<<"d","/","n",".">> \o png) }
\* d/u.json exists, d/n.json does not
UpdatePaths == { Str(<<"d","/","u",".">> \o json), Str(<<"d","/","n",".">> \o json) }
\* destinations of extension e: d/a.e (the directory exists), x/a.e (it does not), a.e (a
\* bare name in the current directory) and d/a.txt
DownloadPaths(e) ==
    { Str(<<"d","/","a",".">> \o e), Str(<<"x","/","a",".">> \o e), Str(<<"a",".">> \o e),
      Str(<<"d","/","a",".","t","x","t">>) }

\* inputs of the validators
UrlInputs ==
    {None, NonStr} \cup
    { Str(p \o t) :
        p \in { <<>>, http, https, ftp, SubSeq(http, 1, 6), SubSeq(https, 1, 7),
                SubSeq(http, 1, 4), Tail(http), <<"x">> \o http, <<" ">> \o https,
                <<"H","T","T","P",":","/","/">>, <<"h","t","t","p","s","/","/">> },
        t \in { <<>>, host, <<"/">>, http, https \o host } }
OauthInputs == {None, NonStr, PathObj(<<"t">>)} \cup OauthArgs \cup OauthFields
UriInputs == {None, NonStr, PathObj(<<"a">>)} \cup UriArgs \cup UriFields \cup ServerUris

\* file names: directory part, stem, and what follows the stem
PathStrings(dirs, stems, tails) == { d \o n \o t : d \in dirs, n \in stems, t \in tails }
\* a str that str(PurePath(s)) gives back unchanged
IsNormal(p) ==
    /\ p # <<>>
    /\ p[Len(p)] # "/" \/ p = <<"/">>
    /\ Len(p) >= 2 => ~(p[1] = "." /\ p[2] = "/") /\ ~(p[Len(p) - 1] = "/" /\ p[Len(p)] = ".")
AsPaths(strings) ==
    {None, NonStr} \cup {Str(p) : p \in strings}
                   \cup {PathObj(p) : p \in {q \in strings : IsNormal(q)}}

ImagePathInputs ==
    AsPaths(PathStrings(
        { <<>>, <<"d","/">>, <<"x","/">>, <<"d",".","j","p","g","/">> },
        { <<>>, <<"i">>, <<"n">>, <<".">> },
        { <<>>, <<".">>, <<".","t","x","t">>, <<".","J","P","G">>, <<".","j","p">>,
          <<".","j","p","g","x">>, <<".","j","p","g",".">>, <<".","t","x","t",".">> \o jpg }
        \cup { <<".">> \o e : e \in ImageExtensions \cup {json} }))

DestinationInputs ==
    AsPaths(PathStrings(
        { <<>>, <<"d","/">>, <<"x","/">>, <<".","/">>, <<"/">>, <<"d","/","e","/">> },
        { <<>>, <<"a">>, <<".">> },
        { <<>>, <<".">>, <<".","J","S","O","N">>, <<".","j","s","o">>,
          <<".","j","s","o","n","x">>, <<".">> \o jpg \o <<".">> \o json }
        \cup { <<".">> \o e : e \in {json, jpg} }))
\* the extensions the downloads require
RequiredExtensions == {json, jpg}

\* operands of join_endpoint: base URLs without a trailing '/', with one, with two, the
\* empty str, and values that are not str
BaseUrlInputs ==
    {None, NonStr, PathObj(https \o host), Str(<<>>)} \cup
    { Str(p \o h \o t) : p \in {http, https}, h \in {host, host \o <<"/","v","1">>},
                          t \in {<<>>, <<"/">>, <<"/","/">>} }
Statuses == {200, 404, 500}
\* answers to upload, process and update: a JSON body with a 'uri' field, or no JSON
JsonResponses ==
    { [status |-> 200, json |-> j, content |-> Bytes(<<>>)] : j \in ServerUris \cup {NoJson} }
    \cup { [status |-> st, json |-> Str(<<"c">>), content |-> Bytes(<<>>)] :
              st \in Statuses \ {200} }
\* answers to the downloads: a binary body, or (from a mocked transport) one that is not bytes
BodyResponses ==
    { [status |-> 200, json |-> NoJson, content |-> c] :
        c \in {Bytes(b) : b \in Bodies} \cup {NotBytes} }
    \cup { [status |-> st, json |-> NoJson, content |-> Bytes(Body(1))] :
              st \in Statuses \ {200} }

----------------------------------------------------------------------------
(* The state machine *)

endpoints ==
    [ upload_image |-> Str(<<"a","p","i","/","u","p","l","o","a","d","/","i","m","a","g","e">>),
      process_image |-> Str(<<"a","p","i","/","p","r","o","c","e","s","s","/","i","m","a","g","e">>),
      download_marked_answers |->
          Str(<<"a","p","i","/","d","o","w","n","l","o","a","d","/",
                "m","a","r","k","e","d","_","a","n","s","w","e","r","s">>),
      download_confirmation_image |->
          Str(<<"a","p","i","/","d","o","w","n","l","o","a","d","/",
                "c","o","n","f","i","r","m","a","t","i","o","n","_","i","m","a","g","e">>),
      update_marked_answers |->
          Str(<<"a","p","i","/","u","p","d","a","t","e","/",
                "m","a","r","k","e","d","_","a","n","s","w","e","r","s">>) ]

\* the second operand of join_endpoint: the endpoints of the table, and values that are not str
EndpointInputs == {None, NonStr} \cup {endpoints[k] : k \in DOMAIN endpoints}

\* GraderClient(url, oauth), for arguments the constructor accepts
GraderClient(url, oauth) ==
    [url |-> url, oauth |-> oauth, uri |-> None, download_directory |-> None,
     endpoints |-> endpoints]

NoCall ==
    [op |-> "", path |-> None, extension |-> <<>>, uri |-> None, url |-> None,
     oauth |-> None, endpoint |-> None, answer |-> NoResp, exc |-> "", resp |-> NoResp, derived |-> None]

\* the files on disk when the client is constructed
InitFiles ==
    (<<"d","/","i",".">> \o jpg :> <<"01","02">>) @@
    (<<"d","/","i",".","t","x","t">> :> <<"03">>) @@
    (<<"d","/","u",".">> \o json :> <<"7b","7d">>) @@
    (<<"d","/","a",".">> \o json :> <<"09","09","09">>) @@
    (<<"d","/","i",".","J","P","G">> :> <<"04">>) @@
    (<<"d","/","i",".">> \o tiff :> <<"05">>) @@
    (<<"d","/","i">> :> <<"06">>) @@
    (<<"d","/",".">> \o jpg :> <<"07">>) @@
    (<<"i",".">> \o png :> <<"08">>)

Init ==
    /\ \E url \in UrlFields, oauth \in OauthFields :
          /\ validate_url(url) = "True"
          /\ validate_oauth(oauth) = "True"
          /\ client = GraderClient(url, oauth)
    /\ files = InitFiles
    /\ call = NoCall
    /\ sent = <<>>
    /\ held = None

\* an operation has run: its arguments, the transport's answer r to the request it issued
\* (if it issued one) and its outcome are what the caller sees
Outcome(op, path, uri, url, oauth, r, out) ==
    /\ call' = [op |-> op, path |-> path, extension |-> <<>>, uri |-> uri, url |-> url,
                oauth |-> oauth, endpoint |-> None,
                answer |-> IF out.sent = <<>> THEN NoResp ELSE r,
                exc |-> out.exc, resp |-> out.resp, derived |-> out.derived]
    /\ sent' = out.sent
    /\ files' = out.files
    /\ client' = out.client
    /\ UNCHANGED held

UploadImage ==
    /\ call = NoCall
    /\ \E path \in UploadPaths, url \in UrlArgs, oauth \in OauthArgs, r \in JsonResponses :
          Outcome("upload_image", path, None, url, oauth, r,
                  upload_image(path, url, oauth, r))

ProcessImage ==
    /\ call = NoCall
    /\ \E uri \in UriArgs \cup {held}, url \in UrlArgs, oauth \in OauthArgs,
          r \in JsonResponses :
          Outcome("process_image", None, uri, url, oauth, r,
                  process_image(uri, url, oauth, r))

UpdateMarkedAnswers ==
    /\ call = NoCall
    /\ \E path \in UpdatePaths, uri \in UriArgs \cup {held}, url \in UrlArgs,
          oauth \in OauthArgs, r \in JsonResponses :
          Outcome("update_marked_answers", path, uri, url, oauth, r,
                  update_marked_answers(path, uri, url, oauth, r))

DownloadMarkedAnswers ==
    /\ call = NoCall
    /\ \E path \in DownloadPaths(json), uri \in UriArgs \cup {held}, url \in UrlArgs,
          oauth \in OauthArgs, r \in BodyResponses :
          Outcome("download_marked_answers", path, uri, url, oauth, r,
                  download_marked_answers(path, uri, url, oauth, r))

DownloadConfirmationImage ==
    /\ call = NoCall
    /\ \E path \in DownloadPaths(jpg), uri \in UriArgs \cup {held}, url \in UrlArgs,
          oauth \in OauthArgs, r \in BodyResponses :
          Outcome("download_confirmation_image", path, uri, url, oauth, r,
                  download_confirmation_image(path, uri, url, oauth, r))

\* client.url = v, client.oauth = v or client.uri = v, assigned by the caller
SetField ==
    /\ call = NoCall
    /\ \/ \E v \in UrlFields : client' = [client EXCEPT !.url = v]
       \/ \E v \in OauthFields : client' = [client EXCEPT !.oauth = v]
       \/ \E v \in UriFields : client' = [client EXCEPT !.uri = v]
    /\ UNCHANGED <<files, call, sent, held>>

\* the caller takes the outcome; it keeps the identifier an upload_image returned, to
\* pass it to the next operation
Collect ==
    /\ call # NoCall
    /\ held' = IF call.op = "upload_image" /\ call.exc = "" THEN call.derived ELSE None
    /\ call' = NoCall
    /\ sent' = <<>>
    /\ UNCHANGED <<client, files>>

----------------------------------------------------------------------------
(* The validators, called on their own *)

Validated(op, path, extension, uri, url, oauth, result) ==
    /\ call' = [op |-> op, path |-> path, extension |-> extension, uri |-> uri,
                url |-> url, oauth |-> oauth, endpoint |-> None, answer |-> NoResp,
                exc |-> IF result = "True" THEN "" ELSE result,
                resp |-> NoResp,
                derived |-> IF result = "True" THEN True ELSE None]
    /\ UNCHANGED <<client, files, sent, held>>

ValidateUrl ==
    /\ call = NoCall
    /\ \E url \in UrlInputs :
          Validated("validate_url", None, <<>>, None, url, None, validate_url(url))

ValidateOauth ==
    /\ call = NoCall
    /\ \E oauth \in OauthInputs :
          Validated("validate_oauth", None, <<>>, None, None, oauth, validate_oauth(oauth))

ValidateImagePath ==
    /\ call = NoCall
    /\ \E path \in ImagePathInputs :
          Validated("validate_image_path", path, <<>>, None, None, None,
                    validate_image_path(path))

ValidateUri ==
    /\ call = NoCall
    /\ \E uri \in UriInputs :
          Validated("validate_uri", None, <<>>, uri, None, None, validate_uri(uri))

ValidatePath ==
    /\ call = NoCall
    /\ \E path \in DestinationInputs, extension \in RequiredExtensions :
          Validated("validate_path", path, extension, None, None, None,
                    validate_path(path, extension))

\* join_endpoint(url, endpoint), called on its own
JoinEndpoint ==
    /\ call = NoCall
    /\ \E url \in BaseUrlInputs, endpoint \in EndpointInputs :
          LET joined == join_endpoint(url, endpoint)
          IN  call' = [NoCall EXCEPT !.op = "join_endpoint", !.url = url,
                                     !.endpoint = endpoint, !.exc = joined.raise,
                                     !.derived = joined.value]
    /\ UNCHANGED <<client, files, sent, held>>

NextV ==
    \/ ValidateUrl
    \/ ValidateOauth
    \/ ValidateImagePath
    \/ ValidateUri
    \/ ValidatePath
    \/ JoinEndpoint
    \/ Collect

\* the validators applied to every input of the sets above
SpecV == Init /\ [][NextV]_vars

Next ==
    \/ UploadImage
    \/ ProcessImage
    \/ UpdateMarkedAnswers
    \/ DownloadMarkedAnswers
    \/ DownloadConfirmationImage
    \/ SetField
    \/ Collect

Spec == Init /\ [][Next]_vars

----------------------------------------------------------------------------
(* What the claims speak of *)

StartsWith(s, prefix) ==
    Len(s) >= Len(prefix) /\ \A i \in 1..Len(prefix) : s[i] = prefix[i]

\* the last component of a path
Basename(p) == SubSeq(p, RFind(p, "/") + 1, Len(p))

\* the extension of a file name, without its dot: what follows the last dot of the last
\* component, when something other than dots comes before that dot
ExtensionOf(p) ==
    LET name == Basename(p)
        k == RFind(name, ".")
    IN  IF k > 1 /\ \E j \in 1..(k - 1) : name[j] # "."
        THEN SubSeq(name, k + 1, Len(name))
        ELSE <<>>

\* the directory that holds the file: the current directory for a bare file name
ContainingDirExists(p) ==
    IF RFind(p, "/") = 0 THEN exists(<<".">>) ELSE exists(dirname(p))

----------------------------------------------------------------------------
(* Claims on the validators, under SpecV *)

\* C1: for every str URL, validate_url returns True when the URL starts with 'http://' or
\* 'https://', and raises ValueError when it starts with neither
C1_ValidateUrlPrefix ==
    (call.op = "validate_url" /\ IsStr(call.url)) =>
        IF StartsWith(call.url.s, http) \/ StartsWith(call.url.s, https)
        THEN call.exc = "" /\ call.derived = True
        ELSE call.exc = "ValueError"

\* a URL that has the scheme name but not the whole prefix has been rejected
C1_Witness ==
    /\ call.op = "validate_url"
    /\ IsStr(call.url)
    /\ StartsWith(call.url.s, SubSeq(https, 1, 7))
    /\ ~StartsWith(call.url.s, https)
    /\ call.exc = "ValueError"

\* C2: for every str or path-like image path whose extension is not one of jpg, jpeg, png,
\* tif, tiff (case-sensitive), validate_image_path raises FileNotFoundError whether or not
\* the file exists; it returns True only when the extension is one of them and the path
\* exists
C2_ValidateImagePath ==
    (call.op = "validate_image_path" /\ IsPathLike(call.path)) =>
        /\ ExtensionOf(call.path.s) \notin ImageExtensions => call.exc = "FileNotFoundError"
        /\ call.exc = "" =>
              ExtensionOf(call.path.s) \in ImageExtensions /\ exists(call.path.s)
        /\ call.exc \in {"", "FileNotFoundError"}

\* a file that exists, with an extension that differs from jpg by case only, has been
\* rejected
C2_Witness ==
    /\ call.op = "validate_image_path"
    /\ IsPathLike(call.path)
    /\ exists(call.path.s)
    /\ ExtensionOf(call.path.s) = <<"J","P","G">>
    /\ call.exc = "FileNotFoundError"

\* C3: for every destination path and required extension, validate_path returns True if
\* and only if the directory containing the destination file exists and the file's
\* extension equals the required extension; a bare file name is contained in the current
\* directory
C3_ValidatePathIff ==
    (call.op = "validate_path" /\ IsPathLike(call.path)) =>
        (call.exc = "" <=>
            ContainingDirExists(call.path.s) /\ ExtensionOf(call.path.s) = call.extension)

\* the same, for the paths that name their directory
C3_WithDirectoryPart ==
    (call.op = "validate_path" /\ IsPathLike(call.path) /\ RFind(call.path.s, "/") > 0) =>
        (call.exc = "" <=>
            ContainingDirExists(call.path.s) /\ ExtensionOf(call.path.s) = call.extension)

----------------------------------------------------------------------------
(* Claims on the request operations, under Spec *)

UriOps == {"upload_image", "process_image", "update_marked_answers"}
DownloadOps == {"download_marked_answers", "download_confirmation_image"}
Ops == UriOps \cup DownloadOps

\* the value an operation works with: the argument, or the client's field when it is None
Resolved(arg, field) == IF arg = None THEN field ELSE arg

\* an operation has just been invoked by this step
Invoked(ops) == call.op = "" /\ call'.op \in ops

\* C4: when the transport answers 200 with a JSON body whose 'uri' is x, upload_image,
\* process_image and update_marked_answers return the pair (response, x)
C4_ReturnsServerUri ==
    (call.op \in UriOps /\ call.answer.status = 200 /\ call.answer.json # NoJson) =>
        /\ call.exc = ""
        /\ call.resp = call.answer
        /\ call.derived = call.answer.json

\* process_image has returned the server's identifier, which is neither the one it sent
\* nor the client's uri field
C4_Witness ==
    /\ call.op = "process_image"
    /\ call.answer.status = 200
    /\ call.uri = Str(<<"a">>)
    /\ client.uri = Str(<<"b">>)
    /\ call.derived = Str(<<"c">>)

C6_DownloadWritesBody ==
    (call.op \in DownloadOps /\ call.answer.status = 200 /\ call.answer.content.t = "bytes") =>
        /\ call.exc = ""
        /\ call.resp = call.answer
        /\ call.derived = call.path
        /\ call.path.s \in DOMAIN files
        /\ files[call.path.s] = call.answer.content.s

\* download_marked_answers has replaced the three bytes of d/a.json by a one-byte body
C6_Witness ==
    /\ call.op = "download_marked_answers"
    /\ call.path.s \in DOMAIN InitFiles
    /\ call.answer.status = 200
    /\ call.answer.content = Bytes(Body(1))
    /\ files[call.path.s] = Body(1)

\* C7: when the transport answers with a status code other than 200 and 500, each of the
\* five operations raises nothing and returns (response, None)
C7_SoftFail ==
    (call.op \in Ops /\ call.answer.status \notin {0, 200, 500}) =>
        /\ call.exc = ""
        /\ call.resp = call.answer
        /\ call.derived = None

\* update_marked_answers has been answered 404
C7_Witness ==
    /\ call.op = "update_marked_answers"
    /\ call.answer.status = 404
    /\ call.exc = ""
    /\ call.derived = None

\* C8: process_image, called right after an upload_image with the identifier that upload
\* returned and with a URL and a credential that validate, issues exactly one request,
\* whose 'uri' field is that identifier
C8_RoundTrip ==
    (/\ call.op = "process_image"
     /\ held # None
     /\ call.uri = held
     /\ validate_url(Resolved(call.url, client.url)) = "True"
     /\ validate_oauth(Resolved(call.oauth, client.oauth)) = "True") =>
        /\ Len(sent) = 1
        /\ sent[1].method = "POST"
        /\ sent[1].uri = held

\* the identifier went round while the client's uri field held another one
C8_Witness ==
    /\ call.op = "process_image"
    /\ held = Str(<<"c">>)
    /\ call.uri = held
    /\ client.uri = Str(<<"b">>)
    /\ Len(sent) = 1
    /\ sent[1].uri = Str(<<"c">>)

\* the results, other than True, of the validators an operation runs on its resolved inputs
Failures(c) ==
    LET url1 == Resolved(c.url, client.url)
        oauth1 == Resolved(c.oauth, client.oauth)
        uri1 == Resolved(c.uri, client.uri)
        ran == CASE c.op = "upload_image" ->
                      {validate_image_path(c.path), validate_url(url1), validate_oauth(oauth1)}
                 [] c.op = "process_image" ->
                      {validate_url(url1), validate_oauth(oauth1), validate_uri(uri1)}
                 [] c.op = "download_marked_answers" ->
                      {validate_path(c.path, json), validate_uri(uri1), validate_url(url1),
                       validate_oauth(oauth1)}
                 [] c.op = "download_confirmation_image" ->
                      {validate_path(c.path, jpg), validate_uri(uri1), validate_oauth(oauth1),
                       validate_url(url1)}
                 [] OTHER -> {}
    IN  ran \ {"True"}

\* C9: whenever a validator that an operation runs fails on the resolved inputs, the
\* operation raises that validator's error, having issued no request and written no file
C9_ValidateBeforeRequest ==
    [][(Invoked(Ops) /\ Failures(call') # {}) =>
          (call'.exc \in Failures(call') /\ sent' = <<>> /\ files' = files)]_vars

\* download_marked_answers, with a destination and an identifier that validate and a URL
\* that does not, has raised without a request
C9_Witness ==
    /\ call.op = "download_marked_answers"
    /\ validate_path(call.path, json) = "True"
    /\ validate_uri(Resolved(call.uri, client.uri)) = "True"
    /\ validate_url(Resolved(call.url, client.url)) = "ValueError"
    /\ call.exc = "ValueError"
    /\ sent = <<>>

\* C10: when the resolved URL is a str without the 'http://' or 'https://' prefix, or the
\* resolved credential is None or not a str, update_marked_answers raises an error and
\* issues no PUT request
C10_UpdateValidates ==
    (/\ call.op = "update_marked_answers"
     /\ LET url1 == Resolved(call.url, client.url)
        IN  \/ IsStr(url1) /\ validate_url(url1) # "True"
            \/ validate_oauth(Resolved(call.oauth, client.oauth)) # "True") =>
        /\ call.exc # ""
        /\ sent = <<>>

\* C11: in every operation the URL, the credential and the identifier that are validated
\* and that build the request are the explicit argument when one is given, and the client's
\* field only when the argument is None
C11_ArgumentOverridesField ==
    (call.op \in Ops) =>
        LET url1 == Resolved(call.url, client.url)
            uri1 == Resolved(call.uri, client.uri)
        IN  /\ call.op # "update_marked_answers" => (sent # <<>> <=> Failures(call) = {})
            /\ sent # <<>> =>
                  /\ sent[1].url = Str(url1.s \o <<"/">> \o client.endpoints[call.op].s)
                  /\ call.op # "upload_image" => sent[1].uri = uri1

\* download_confirmation_image has sent its request with an explicit URL and identifier that
\* differ from the client's fields, and with an explicit credential while the client's oauth
\* field would not validate
C11_Witness ==
    /\ call.op = "download_confirmation_image"
    /\ call.url = Str(http \o host) /\ client.url = Str(https \o <<"g">>)
    /\ call.uri = Str(<<"a">>) /\ client.uri = Str(<<"b">>)
    /\ call.oauth = Str(<<"t">>) /\ client.oauth = NonStr
    /\ Len(sent) = 1
    /\ sent[1].uri = Str(<<"a">>)

\* C12: whatever its arguments and its outcome, none of the five operations changes the
\* client's url, oauth, uri and download_directory fields or its endpoint table; the
\* identifier an operation returns is not stored in the uri field
C12_ClientUnchanged ==
    [][Invoked(Ops) => client' = client]_vars

\* upload_image has returned an identifier and the client's uri field is still None
C12_Witness ==
    /\ call.op = "upload_image"
    /\ call.exc = ""
    /\ call.derived = Str(<<"c">>)
    /\ client.uri = None

\* the requests the invocation c issues when it is made with the credential argument oauth
\* instead of its own, everything else (arguments, client, files, answer) being the same
RequestsWith(c, oauth) ==
    CASE c.op = "upload_image" -> upload_image(c.path, c.url, oauth, c.answer).sent
      [] c.op = "process_image" -> process_image(c.uri, c.url, oauth, c.answer).sent
      [] c.op = "update_marked_answers" ->
             update_marked_answers(c.path, c.uri, c.url, oauth, c.answer).sent
      [] c.op = "download_marked_answers" ->
             download_marked_answers(c.path, c.uri, c.url, oauth, c.answer).sent
      [] c.op = "download_confirmation_image" ->
             download_confirmation_image(c.path, c.uri, c.url, oauth, c.answer).sent

\* C13: the credential is never transmitted: an invocation made with another valid
\* credential, everything else being the same, issues the same requests (method, URL, form
\* field and file), and no request carries the credential
C13_CredentialNotSent ==
    (call.op \in Ops /\ validate_oauth(Resolved(call.oauth, client.oauth)) = "True") =>
        /\ \A oauth \in OauthArgs :
              validate_oauth(Resolved(oauth, client.oauth)) = "True" =>
                  RequestsWith(call, oauth) = sent
        /\ \A i \in 1..Len(sent) : sent[i].auth = NoField

\* process_image has issued its request with the explicit credential 't', and at least one
\* other valid credential was there to be compared with
C13_Witness ==
    /\ call.op = "process_image"
    /\ call.oauth = Str(<<"t">>)
    /\ Len(sent) = 1
    /\ \E oauth \in OauthArgs :
          /\ Resolved(oauth, client.oauth) # Str(<<"t">>)
          /\ validate_oauth(Resolved(oauth, client.oauth)) = "True"

----------------------------------------------------------------------------
(* More claims on the validators, under SpecV *)

ValueValidators == {"validate_url", "validate_oauth", "validate_uri"}

\* the value a validator of ValueValidators was called with
Input(c) ==
    CASE c.op = "validate_url" -> c.url
      [] c.op = "validate_oauth" -> c.oauth
      [] c.op = "validate_uri" -> c.uri

----------------------------------------------------------------------------
(* More claims on the request operations, under Spec *)

\* the operations that validate the credential, and those that validate the identifier
CredentialOps == Ops \ {"update_marked_answers"}
IdentifierOps == CredentialOps \ {"upload_image"}

IsNonEmptyStr(v) == IsStr(v) /\ v.s # <<>>

\* C15 as stated: upload_image, process_image and the two downloads issue no request
\* unless the resolved credential is a non-empty str, and the last three none unless the
\* resolved identifier is a non-empty str
C15_NonEmpty ==
    (call.op \in CredentialOps /\ sent # <<>>) =>
        /\ IsNonEmptyStr(Resolved(call.oauth, client.oauth))
        /\ call.op \in IdentifierOps => IsNonEmptyStr(Resolved(call.uri, client.uri))

\* C15, amended: they issue no request unless the resolved credential is a str, and the
\* last three none unless the resolved identifier is a str; the empty str passes
C15_StrOnly ==
    (call.op \in CredentialOps /\ sent # <<>>) =>
        /\ IsStr(Resolved(call.oauth, client.oauth))
        /\ call.op \in IdentifierOps => IsStr(Resolved(call.uri, client.uri))

\* process_image has issued a request with the empty str as credential and as identifier
C15_Witness ==
    /\ call.op = "process_image"
    /\ Resolved(call.oauth, client.oauth) = Str(<<>>)
    /\ Resolved(call.uri, client.uri) = Str(<<>>)
    /\ Len(sent) = 1
    /\ sent[1].uri = Str(<<>>)

\* C16: no operation retries: an invocation issues at most one request, whatever the status
\* code of the answer, and the response it returns is the answer to that one request
C16_NoRetry ==
    (call.op \in Ops) =>
        /\ Len(sent) <= 1
        /\ call.exc = "" => (Len(sent) = 1 /\ call.resp = call.answer)

\* download_marked_answers has been answered 404 and has returned that response after one
\* request
C16_Witness ==
    /\ call.op = "download_marked_answers"
    /\ call.answer.status = 404
    /\ call.resp.status = 404
    /\ Len(sent) = 1

----------------------------------------------------------------------------
(* The claim on join_endpoint, under SpecV *)

\* the number of '/' a str ends with
TrailingSlashes(s) == Len(s) - Len(RStrip(s, "/"))

\* C17 as stated: for every str base URL and every endpoint of the table, join_endpoint
\* returns the base URL, then exactly one '/', then the endpoint path; it raises TypeError
\* when either operand is not a str
C17_OneSeparator ==
    (call.op = "join_endpoint") =>
        IF IsStr(call.url) /\ IsStr(call.endpoint)
        THEN /\ call.exc = ""
             /\ call.derived = Str(RStrip(call.url.s, "/") \o <<"/">> \o call.endpoint.s)
        ELSE call.exc = "TypeError"

\* C17, amended: that holds for the str base URLs that are not empty and end with at most
\* one '/'; for the empty str the result is the endpoint path alone, and a base URL that
\* ends with several '/' keeps all of them; TypeError when either operand is not a str
C17_JoinAsPath ==
    (call.op = "join_endpoint") =>
        IF IsStr(call.url) /\ IsStr(call.endpoint)
        THEN /\ call.exc = ""
             /\ call.derived =
                  IF call.url.s = <<>> THEN call.endpoint
                  ELSE IF TrailingSlashes(call.url.s) <= 1
                       THEN Str(RStrip(call.url.s, "/") \o <<"/">> \o call.endpoint.s)
                  ELSE Str(call.url.s \o call.endpoint.s)
        ELSE call.exc = "TypeError"

\* a base URL with one trailing '/' has been joined with an endpoint
C17_Witness ==
    /\ call.op = "join_endpoint"
    /\ IsStr(call.url) /\ IsStr(call.endpoint)
    /\ TrailingSlashes(call.url.s) = 1
    /\ call.exc = ""
    /\ call.derived = Str(call.url.s \o call.endpoint.s)

====
